---- MODULE Spec2Model ----
(***************************************************************************)
(* Provider adapters of app/lib/modules/llm/providers:                     *)
(*   - AmazonBedrockProvider (amazon-bedrock.ts): credential blob parsing  *)
(*     and getModelInstance;                                               *)
(*   - TogetherProvider, the AgentRouter wrapper (together.ts):            *)
(*     getDynamicModels and getModelInstance.                              *)
(*                                                                         *)
(* JavaScript strings are modelled as sequences, so that "" is <<>> and    *)
(* the character-level operations the code performs (trim, strip a         *)
(* trailing slash, toLowerCase, includes) are computed, not assumed.  A    *)
(* Bedrock credential blob is the sequence of its JSON tokens.             *)
(***************************************************************************)
EXTENDS Integers, Sequences, FiniteSets, TLC

VARIABLES
    provider,          \* which provider object the call is made on
    apiKeys,           \* options.apiKeys: key name -> string
    providerSettings,  \* options.providerSettings: provider name -> settings
    serverEnv,         \* options.serverEnv: key name -> string
    processEnv,        \* process.env: key name -> string
    doc,               \* how the Bedrock blob under test was written (history)
    pc,                \* position of the call
    idx,               \* getDynamicModels: index of the candidate endpoint
    requests,          \* getDynamicModels: the HTTP requests issued so far
    resp,              \* getDynamicModels: the response being handled
    ended,             \* how each finished candidate ended (history)
    resJson,           \* getDynamicModels: the parsed body
    rawModels,         \* getDynamicModels: the raw entries found in the body
    chatModels,        \* getDynamicModels: the raw entries the filter kept
    result,            \* what the call returned or threw
    factoryCalls       \* calls made to getOpenAILikeModel / createAmazonBedrock

vars == <<provider, apiKeys, providerSettings, serverEnv, processEnv, doc,
          pc, idx, requests, resp, ended, resJson, rawModels, chatModels,
          result, factoryCalls>>

(***************************************************************************)
(* JavaScript values                                                       *)
(***************************************************************************)
NoProps == [k \in {} |-> 0]

JVal(kind, s) == [kind |-> kind, s |-> s, props |-> NoProps, items |-> <<>>]

JUndefined == JVal("undefined", "")
JNull == JVal("null", "")
JStr(s) == JVal("string", s)
JNum(n) == JVal("number", n)   \* n is the numeral, "0" or "1"
JBool(b) == JVal("boolean", b)
JObj(props) == [kind |-> "object", s |-> "", props |-> props, items |-> <<>>]
JArr(items) == [kind |-> "array", s |-> "", props |-> NoProps, items |-> items]

\* ToBoolean: undefined, null, "", 0 and false are falsy
Truthy(v) ==
    CASE v.kind \in {"undefined", "null"} -> FALSE
      [] v.kind = "string" -> v.s # ""
      [] v.kind = "number" -> v.s # "0"
      [] v.kind = "boolean" -> v.s = "true"
      [] OTHER -> TRUE

\* property read v.key: undefined when the value has no such own property
Get(v, key) == IF key \in DOMAIN v.props THEN v.props[key] ELSE JUndefined

\* a string-valued map entry m[k], "" (<<>>) when absent
Lookup(m, k) == IF k \in DOMAIN m THEN m[k] ELSE <<>>

\* a || b on strings
Or(a, b) == IF a # <<>> THEN a ELSE b

(***************************************************************************)
(* JSON text: a sequence of tokens                                         *)
(***************************************************************************)
Tok(t, v) == [t |-> t, v |-> v]
LBrace == Tok("p", "{")
RBrace == Tok("p", "}")
LBrack == Tok("p", "[")
RBrack == Tok("p", "]")
Colon == Tok("p", ":")
Comma == Tok("p", ",")
TStr(s) == Tok("s", s)
TNum(n) == Tok("n", n)
TLit(l) == Tok("l", l)

ParseFail == [ok |-> FALSE, next |-> 0, val |-> JUndefined]
ParseOk(next, val) == [ok |-> TRUE, next |-> next, val |-> val]

PutProp(props, key, val) ==
    [k \in DOMAIN props \cup {key} |-> IF k = key THEN val ELSE props[k]]

RECURSIVE ParseValue(_, _)
RECURSIVE ParseElements(_, _, _, _)
RECURSIVE ParseMembers(_, _, _, _)

\* JSON.parse, the value starting at token i
ParseValue(toks, i) ==
    IF i > Len(toks) THEN ParseFail
    ELSE LET tk == toks[i] IN
         CASE tk.t = "s" -> ParseOk(i + 1, JStr(tk.v))
           [] tk.t = "n" -> ParseOk(i + 1, JNum(tk.v))
           [] tk.t = "l" ->
                ParseOk(i + 1, IF tk.v = "null" THEN JNull ELSE JBool(tk.v))
           [] tk = LBrack -> ParseElements(toks, i + 1, <<>>, TRUE)
           [] tk = LBrace -> ParseMembers(toks, i + 1, NoProps, TRUE)
           [] OTHER -> ParseFail

ParseElements(toks, i, items, first) ==
    IF i > Len(toks) THEN ParseFail
    ELSE IF first /\ toks[i] = RBrack THEN ParseOk(i + 1, JArr(items))
    ELSE LET r == ParseValue(toks, i) IN
         IF ~r.ok \/ r.next > Len(toks) THEN ParseFail
         ELSE IF toks[r.next] = RBrack
              THEN ParseOk(r.next + 1, JArr(Append(items, r.val)))
         ELSE IF toks[r.next] = Comma
              THEN ParseElements(toks, r.next + 1, Append(items, r.val), FALSE)
         ELSE ParseFail

ParseMembers(toks, i, props, first) ==
    IF i > Len(toks) THEN ParseFail
    ELSE IF first /\ toks[i] = RBrace THEN ParseOk(i + 1, JObj(props))
    ELSE IF i + 1 > Len(toks) \/ toks[i].t # "s" \/ toks[i + 1] # Colon
         THEN ParseFail
    ELSE LET r == ParseValue(toks, i + 2) IN
         IF ~r.ok \/ r.next > Len(toks) THEN ParseFail
         ELSE IF toks[r.next] = RBrace
              THEN ParseOk(r.next + 1, JObj(PutProp(props, toks[i].v, r.val)))
         ELSE IF toks[r.next] = Comma
              THEN ParseMembers(toks, r.next + 1,
                                PutProp(props, toks[i].v, r.val), FALSE)
         ELSE ParseFail

\* JSON.parse(text): one value and nothing after it, else a SyntaxError
JSONParse(toks) ==
    LET r == ParseValue(toks, 1) IN
    IF r.ok /\ r.next = Len(toks) + 1
    THEN [ok |-> TRUE, val |-> r.val]
    ELSE [ok |-> FALSE, val |-> JUndefined]

(***************************************************************************)
(* BaseProvider.getProviderBaseUrlAndKey (base-provider.ts, not among the  *)
(* source files): resolves the pair from the sources it is handed, first   *)
(* non-empty wins.  It knows the provider's name and the default key       *)
(* names, and no alias.                                                    *)
(***************************************************************************)
NoSettings == [apiKey |-> <<>>, baseUrl |-> <<>>, base_url |-> <<>>]

getProviderBaseUrlAndKey(name, keys, settings, env, baseUrlKey, apiTokenKey) ==
    [baseUrl |-> Or(settings.baseUrl, Lookup(env, baseUrlKey)),
     apiKey |-> Or(Lookup(keys, name),
                Or(Lookup(keys, apiTokenKey),
                Or(settings.apiKey, Lookup(env, apiTokenKey))))]

\* providerSettings?.[name]
SettingsOf(name) ==
    IF name \in DOMAIN providerSettings THEN providerSettings[name] ELSE NoSettings

(***************************************************************************)
(* AmazonBedrockProvider                                                   *)
(***************************************************************************)
BedrockName == "AmazonBedrock"
BedrockTokenKey == "AWS_BEDROCK_CONFIG"

Returned(v) == [kind |-> "returned", value |-> v, error |-> "none"]
Threw(e) == [kind |-> "threw", value |-> NoProps, error |-> e]
NoResult == [kind |-> "none", value |-> NoProps, error |-> "none"]

\* mutant: sessionToken copied whatever it holds
BedrockConfigAlwaysToken(region, accessKeyId, secretAccessKey, sessionToken) ==
    [k \in {"region", "accessKeyId", "secretAccessKey", "sessionToken"} |->
        CASE k = "region" -> region
          [] k = "accessKeyId" -> accessKeyId
          [] k = "secretAccessKey" -> secretAccessKey
          [] OTHER -> sessionToken]

\* the object literal of the return statement: the three fields, and
\* sessionToken spread in only when it is truthy
BedrockConfig(region, accessKeyId, secretAccessKey, sessionToken) ==
    LET base == [k \in {"region", "accessKeyId", "secretAccessKey"} |->
                    CASE k = "region" -> region
                      [] k = "accessKeyId" -> accessKeyId
                      [] OTHER -> secretAccessKey]
    IN IF Truthy(sessionToken)
       THEN PutProp(base, "sessionToken", sessionToken)
       ELSE base

_parseAndValidateConfig(apiKey) ==
    LET parsed == JSONParse(apiKey) IN
    IF ~parsed.ok THEN Threw("InvalidFormat")
    \* destructuring null (or undefined) is a TypeError
    ELSE IF parsed.val.kind \in {"null", "undefined"} THEN Threw("TypeError")
    ELSE LET region == Get(parsed.val, "region")
             accessKeyId == Get(parsed.val, "accessKeyId")
             secretAccessKey == Get(parsed.val, "secretAccessKey")
             sessionToken == Get(parsed.val, "sessionToken")
         IN IF ~Truthy(region) \/ ~Truthy(accessKeyId) \/ ~Truthy(secretAccessKey)
            THEN Threw("MissingFields")
            ELSE Returned(BedrockConfig(region, accessKeyId, secretAccessKey,
                                        sessionToken))

\* AmazonBedrockProvider.getModelInstance: [result, calls made to createAmazonBedrock]
BedrockInstance(keys, settings, env) ==
    LET apiKey == getProviderBaseUrlAndKey(BedrockName, keys, settings, env,
                                           "", BedrockTokenKey).apiKey
    IN IF apiKey = <<>> THEN [result |-> Threw("MissingApiKey"), calls |-> <<>>]
       ELSE LET config == _parseAndValidateConfig(apiKey) IN
            IF config.kind = "threw" THEN [result |-> config, calls |-> <<>>]
            ELSE [result |-> Returned(config.value), calls |-> <<config.value>>]

(***************************************************************************)
(* Strings of characters                                                   *)
(***************************************************************************)
LowerChar(c) ==
    CASE c = "A" -> "a" [] c = "C" -> "c" [] c = "E" -> "e" [] c = "G" -> "g"
      [] c = "H" -> "h" [] c = "I" -> "i" [] c = "L" -> "l" [] c = "M" -> "m"
      [] c = "N" -> "n" [] c = "O" -> "o" [] c = "P" -> "p" [] c = "R" -> "r"
      [] c = "S" -> "s" [] c = "T" -> "t" [] c = "U" -> "u" [] c = "Y" -> "y"
      [] OTHER -> c

\* String.prototype.toLowerCase
ToLowerCase(s) == [i \in 1..Len(s) |-> LowerChar(s[i])]

\* String.prototype.includes
Includes(s, sub) ==
    \E i \in 0..(Len(s) - Len(sub)) : SubSeq(s, i + 1, i + Len(sub)) = sub

RECURSIVE TrimStart(_)
TrimStart(s) == IF s # <<>> /\ Head(s) = " " THEN TrimStart(Tail(s)) ELSE s

RECURSIVE TrimEnd(_)
TrimEnd(s) ==
    IF s # <<>> /\ s[Len(s)] = " " THEN TrimEnd(SubSeq(s, 1, Len(s) - 1)) ELSE s

\* String.prototype.trim
Trim(s) == TrimEnd(TrimStart(s))

\* s.replace(/\/$/, ''): one trailing slash removed
StripTrailingSlash(s) ==
    IF s # <<>> /\ s[Len(s)] = "/" THEN SubSeq(s, 1, Len(s) - 1) ELSE s

(***************************************************************************)
(* TogetherProvider (AgentRouter)                                          *)
(***************************************************************************)
AgentRouterName == "AgentRouter"

DefaultBaseUrl ==
    <<"h", "t", "t", "p", "s", ":", "/", "/", "a", "g", "e", "n", "t", "r",
      "o", "u", "t", "e", "r", ".", "o", "r", "g", "/">>

StaticModelName ==
    <<"c", "l", "a", "u", "d", "e", "-", "s", "o", "n", "n", "e", "t", "-",
      "4", "-", "5", "-", "2", "0", "2", "5", "0", "9", "2", "9">>

NoFinite == [fin |-> FALSE, n |-> 0]
Finite(n) == [fin |-> TRUE, n |-> n]
NoType == [k |-> "absent", v |-> <<>>]
TypeStr(v) == [k |-> "string", v |-> v]
TypeNum == [k |-> "number", v |-> <<>>]

\* a raw entry of the provider's list; present = FALSE is a null entry
Raw(type, id, model_id, name, uid, context_length, context) ==
    [present |-> TRUE, type |-> type, id |-> id, model_id |-> model_id,
     name |-> name, uid |-> uid, context_length |-> context_length,
     context |-> context]

NullRaw ==
    [present |-> FALSE, type |-> NoType, id |-> <<>>, model_id |-> <<>>,
     name |-> <<>>, uid |-> <<>>, context_length |-> NoFinite,
     context |-> NoFinite]

staticModels ==
    <<[name |-> StaticModelName, provider |-> AgentRouterName,
       maxTokenAllowed |-> 200000, maxCompletionTokens |-> 8192]>>

Min(a, b) == IF a <= b THEN a ELSE b

DefaultMaxTokenAllowed == 8000
CompletionCap == 8192

\* mutant: the /v1 path tried before /v1beta
EndpointsV1First(baseUrl) ==
    LET b == StripTrailingSlash(baseUrl) IN
    << b \o <<"/", "v", "1", "/", "m", "o", "d", "e", "l", "s">>,
       b \o <<"/", "v", "1", "b", "e", "t", "a", "/", "m", "o", "d", "e", "l", "s">>,
       b \o <<"/", "m", "o", "d", "e", "l", "s">> >>

Endpoints(baseUrl) ==
    LET b == StripTrailingSlash(baseUrl) IN
    << b \o <<"/", "v", "1", "b", "e", "t", "a", "/", "m", "o", "d", "e", "l", "s">>,
       b \o <<"/", "v", "1", "/", "m", "o", "d", "e", "l", "s">>,
       b \o <<"/", "m", "o", "d", "e", "l", "s">> >>

\* lines 41-51: the base URL and key getDynamicModels works with
DynamicCredentials(keys, settings, env) ==
    LET r == getProviderBaseUrlAndKey(AgentRouterName, keys, settings, env,
                                      "ANTHROPIC_BASE_URL", "ANTHROPIC_API_KEY")
    IN [baseUrl |-> Or(Trim(r.baseUrl),
                    Or(Lookup(env, "ANTHROPIC_BASE_URL"), DefaultBaseUrl)),
        key |-> Or(r.apiKey,
                Or(Lookup(env, "ANTHROPIC_API_KEY"),
                Or(Lookup(env, "AGENTROUTER_API_KEY"),
                Or(Lookup(keys, AgentRouterName),
                   Lookup(keys, "ANTHROPIC_API_KEY")))))]

\* lines 117-134: the list of raw entries in the body
\* a body is [kind, items, members]; a member is [key, isArray, items]
FirstArrayMember(members) ==
    LET hits == {i \in 1..Len(members) : members[i].isArray} IN
    IF hits = {} THEN 0 ELSE CHOOSE i \in hits : \A j \in hits : i <= j

MemberNamed(members, key) ==
    LET hits == {i \in 1..Len(members) : members[i].key = key /\ members[i].isArray}
    IN IF hits = {} THEN 0 ELSE CHOOSE i \in hits : TRUE

NormalizeShape(body) ==
    IF body.kind = "array" THEN body.items
    ELSE IF body.kind # "object" THEN <<>>
    ELSE LET m == body.members
             pick == IF MemberNamed(m, "models") # 0 THEN MemberNamed(m, "models")
                     ELSE IF MemberNamed(m, "data") # 0 THEN MemberNamed(m, "data")
                     ELSE IF MemberNamed(m, "result") # 0 THEN MemberNamed(m, "result")
                     ELSE IF MemberNamed(m, "items") # 0 THEN MemberNamed(m, "items")
                     ELSE FirstArrayMember(m)
         IN IF pick = 0 THEN <<>> ELSE m[pick].items

Chat == <<"c", "h", "a", "t">>
Claude == <<"c", "l", "a", "u", "d", "e">>
Sonnet == <<"s", "o", "n", "n", "e", "t">>
Assistant == <<"a", "s", "s", "i", "s", "t", "a", "n", "t">>

\* mutant: the type compared without lower-casing
IsChatModelCaseSensitive(m) ==
    IF ~m.present THEN FALSE
    ELSE IF m.type.k = "string" THEN m.type.v = Chat
    ELSE LET id == ToLowerCase(Or(m.id, m.name)) IN
         \/ Includes(id, Chat)
         \/ Includes(id, Claude)
         \/ Includes(id, Sonnet)
         \/ Includes(id, Assistant)

\* lines 141-146: the filter's predicate
IsChatModel(m) ==
    IF ~m.present THEN FALSE
    ELSE IF m.type.k = "string" THEN ToLowerCase(m.type.v) = Chat
    ELSE LET id == ToLowerCase(Or(m.id, m.name)) IN
         \/ Includes(id, Chat)
         \/ Includes(id, Claude)
         \/ Includes(id, Sonnet)
         \/ Includes(id, Assistant)

RECURSIVE FilterFrom(_, _)
FilterFrom(s, i) ==
    IF i > Len(s) THEN <<>>
    ELSE IF IsChatModel(s[i]) THEN <<s[i]>> \o FilterFrom(s, i + 1)
    ELSE FilterFrom(s, i + 1)

\* rawModels.filter(...)
FilterChat(raw) == FilterFrom(raw, 1)

\* line 167
MaxCompletionTokens(maxTokenAllowed) ==
    Min(CompletionCap, IF maxTokenAllowed # 0 THEN maxTokenAllowed ELSE CompletionCap)

\* lines 148-180 (the label, a display text, is left out)
MapModel(m) ==
    LET id == Or(m.id, Or(m.model_id, Or(m.name, m.uid)))
        ctx == IF m.context_length.fin THEN m.context_length
               ELSE IF m.context.fin THEN m.context
               ELSE NoFinite
        maxTokenAllowed == IF ctx.fin THEN ctx.n ELSE DefaultMaxTokenAllowed
    IN [name |-> id, provider |-> AgentRouterName,
        maxTokenAllowed |-> maxTokenAllowed,
        maxCompletionTokens |-> MaxCompletionTokens(maxTokenAllowed),
        raw |-> m]

\* mutant: set() without the has() test, so the last record of a name stays
RECURSIVE DedupeLastWins(_, _, _)
DedupeLastWins(mapped, i, seen) ==
    IF i > Len(mapped) THEN <<>>
    ELSE IF mapped[i].name = <<>> \/ mapped[i].name \in seen
         THEN DedupeLastWins(mapped, i + 1, seen)
    ELSE LET same == {j \in i..Len(mapped) : mapped[j].name = mapped[i].name}
             last == CHOOSE j \in same : \A k \in same : k <= j
         IN <<mapped[last]>>
            \o DedupeLastWins(mapped, i + 1, seen \cup {mapped[i].name})

\* lines 182-189: the values of the Map keyed by name, in insertion order
RECURSIVE Dedupe(_, _, _)
Dedupe(mapped, i, seen) ==
    IF i > Len(mapped) THEN <<>>
    ELSE IF mapped[i].name = <<>> \/ mapped[i].name \in seen
         THEN Dedupe(mapped, i + 1, seen)
    ELSE <<mapped[i]>> \o Dedupe(mapped, i + 1, seen \cup {mapped[i].name})

\* mutant: an empty list, not the static one, when nothing was fetched
ModelsFromBodyEmptyFallback(body) ==
    IF body.kind = "falsy"
    THEN [raw |-> <<>>, chat |-> <<>>, models |-> <<>>]
    ELSE LET raw == NormalizeShape(body) IN
         IF raw = <<>> THEN [raw |-> raw, chat |-> <<>>, models |-> staticModels]
         ELSE LET chat == FilterChat(raw)
                  mapped == [i \in 1..Len(chat) |-> MapModel(chat[i])]
                  dynamic == Dedupe(mapped, 1, {})
              IN [raw |-> raw, chat |-> chat,
                  models |-> IF dynamic # <<>> THEN dynamic ELSE staticModels]

\* lines 112-192: from the fetched body to the returned list, with the
\* locals rawModels and chatModels as far as they get computed
ModelsFromBody(body) ==
    IF body.kind = "falsy"
    THEN [raw |-> <<>>, chat |-> <<>>, models |-> staticModels]
    ELSE LET raw == NormalizeShape(body) IN
         IF raw = <<>> THEN [raw |-> raw, chat |-> <<>>, models |-> staticModels]
         ELSE LET chat == FilterChat(raw)
                  mapped == [i \in 1..Len(chat) |-> MapModel(chat[i])]
                  dynamic == Dedupe(mapped, 1, {})
              IN [raw |-> raw, chat |-> chat,
                  models |-> IF dynamic # <<>> THEN dynamic ELSE staticModels]

\* mutant: && for ||
MissingBoth(baseUrl, apiKey) == baseUrl = <<>> /\ apiKey = <<>>

\* line 249: if (!baseUrl || !apiKey)
MissingConfiguration(baseUrl, apiKey) == baseUrl = <<>> \/ apiKey = <<>>

\* TogetherProvider.getModelInstance: [result, calls made to getOpenAILikeModel]
AgentRouterInstance(model, env, keys, settings, penv) ==
    LET own == IF AgentRouterName \in DOMAIN settings
               THEN settings[AgentRouterName] ELSE NoSettings
        anthropic == IF "Anthropic" \in DOMAIN settings
                     THEN settings["Anthropic"] ELSE NoSettings
        primary == getProviderBaseUrlAndKey(AgentRouterName, keys, own, env,
                                            "ANTHROPIC_BASE_URL", "ANTHROPIC_API_KEY")
        apiKey == Or(primary.apiKey,
                  Or(Lookup(keys, AgentRouterName),
                  Or(Lookup(keys, "ANTHROPIC_API_KEY"),
                  Or(Lookup(keys, "AGENTROUTER_API_KEY"),
                  Or(Lookup(env, "ANTHROPIC_API_KEY"),
                  Or(Lookup(env, "AGENTROUTER_API_KEY"),
                  Or(own.apiKey, anthropic.apiKey)))))))
        baseUrl == Or(primary.baseUrl,
                   Or(own.baseUrl,
                   Or(own.base_url,
                   Or(Lookup(env, "ANTHROPIC_BASE_URL"),
                   Or(Lookup(env, "AGENTROUTER_BASE_URL"),
                   Or(Lookup(penv, "ANTHROPIC_BASE_URL"), DefaultBaseUrl))))))
    IN IF MissingConfiguration(baseUrl, apiKey)
       THEN [result |-> Threw("MissingConfiguration"), calls |-> <<>>]
       ELSE LET handle == [baseUrl |-> baseUrl, apiKey |-> apiKey, model |-> model]
            IN [result |-> Returned(handle), calls |-> <<handle>>]

(***************************************************************************)
(* Inputs                                                                  *)
(***************************************************************************)
MaxSources == 2     \* credential sources filled in at once
MaxArrayLen == 1    \* elements of a top-level JSON array blob
MaxModels == 2      \* raw entries in a fetched model list

ModelId == "m"
EmptyMap == [k \in {} |-> <<>>]
NoResp == [neterr |-> FALSE, status |-> 0, body |-> [kind |-> "falsy", items |-> <<>>, members |-> <<>>]]

\* the sources an AgentRouter key can come from, each with its own value
KeySources == {"keys.own", "keys.anthropic", "keys.agentrouter", "settings.own",
               "settings.anthropic", "env.anthropic", "env.agentrouter"}

KeyValue(src) == <<src>>

UrlU == <<"h", ":", "/", "/", "u">>
\* a base URL source and the value it holds
BaseConfigs ==
    {<<"none", <<>> >>,
     <<"settings.baseUrl", UrlU \o <<"/">> >>,
     <<"settings.baseUrl", <<" ">> \o UrlU \o <<"/", "/", " ">> >>,
     <<"settings.base_url", UrlU>>,
     <<"env.anthropic", UrlU \o <<"/", " ">> >>,
     <<"env.agentrouter", UrlU>>,
     <<"process.anthropic", UrlU \o <<"/">> >>}

Pick(on, v) == IF on THEN v ELSE <<>>

ApiKeysOf(ks) ==
    [k \in {AgentRouterName, "ANTHROPIC_API_KEY", "AGENTROUTER_API_KEY"} |->
        CASE k = AgentRouterName -> Pick("keys.own" \in ks, KeyValue("keys.own"))
          [] k = "ANTHROPIC_API_KEY" ->
                Pick("keys.anthropic" \in ks, KeyValue("keys.anthropic"))
          [] OTHER -> Pick("keys.agentrouter" \in ks, KeyValue("keys.agentrouter"))]

SettingsFor(ks, bc) ==
    [p \in {AgentRouterName, "Anthropic"} |->
        IF p = AgentRouterName
        THEN [apiKey |-> Pick("settings.own" \in ks, KeyValue("settings.own")),
              baseUrl |-> Pick(bc[1] = "settings.baseUrl", bc[2]),
              base_url |-> Pick(bc[1] = "settings.base_url", bc[2])]
        ELSE [apiKey |-> Pick("settings.anthropic" \in ks,
                              KeyValue("settings.anthropic")),
              baseUrl |-> <<>>, base_url |-> <<>>]]

ServerEnvOf(ks, bc) ==
    [k \in {"ANTHROPIC_API_KEY", "AGENTROUTER_API_KEY", "ANTHROPIC_BASE_URL",
            "AGENTROUTER_BASE_URL"} |->
        CASE k = "ANTHROPIC_API_KEY" ->
                Pick("env.anthropic" \in ks, KeyValue("env.anthropic"))
          [] k = "AGENTROUTER_API_KEY" ->
                Pick("env.agentrouter" \in ks, KeyValue("env.agentrouter"))
          [] k = "ANTHROPIC_BASE_URL" -> Pick(bc[1] = "env.anthropic", bc[2])
          [] OTHER -> Pick(bc[1] = "env.agentrouter", bc[2])]

ProcessEnvOf(bc) ==
    [k \in {"ANTHROPIC_BASE_URL"} |-> Pick(bc[1] = "process.anthropic", bc[2])]

\* Bedrock blobs: a JSON document, written out and possibly damaged
Absent == "<absent>"
FieldKeys == <<"region", "accessKeyId", "secretAccessKey", "sessionToken">>
FieldVals == {Absent, "", "a", "b"}

RECURSIVE MemberToks(_, _, _)
MemberToks(f, i, first) ==
    IF i > Len(FieldKeys) THEN <<>>
    ELSE IF f[FieldKeys[i]] = Absent THEN MemberToks(f, i + 1, first)
    ELSE (IF first THEN <<>> ELSE <<Comma>>)
         \o <<TStr(FieldKeys[i]), Colon, TStr(f[FieldKeys[i]])>>
         \o MemberToks(f, i + 1, FALSE)

RECURSIVE ElementToks(_)
ElementToks(n) ==
    IF n = 0 THEN <<>>
    ELSE IF n = 1 THEN <<TNum("1")>>
    ELSE <<TNum("1"), Comma>> \o ElementToks(n - 1)

NoFields == [k \in {"region", "accessKeyId", "secretAccessKey", "sessionToken"} |-> Absent]

Doc(kind, fields, tok, len) ==
    [kind |-> kind, fields |-> fields, tok |-> tok, len |-> len,
     damage |-> "none", at |-> 0]

ValidDocs ==
    {Doc("object", f, TLit("null"), 0) :
        f \in [{"region", "accessKeyId", "secretAccessKey", "sessionToken"} -> FieldVals]}
    \cup {Doc("array", NoFields, TLit("null"), n) : n \in 0..MaxArrayLen}
    \cup {Doc("primitive", NoFields, t, 0) :
            t \in {TStr("a"), TStr(""), TNum("0"), TNum("1"),
                   TLit("true"), TLit("false"), TLit("null")}}

\* the text of the document as written, before any damage
ValidText(d) ==
    CASE d.kind = "object" -> <<LBrace>> \o MemberToks(d.fields, 1, TRUE) \o <<RBrace>>
      [] d.kind = "array" -> <<LBrack>> \o ElementToks(d.len) \o <<RBrack>>
      [] OTHER -> <<d.tok>>

\* the blob: intact, cut short after d.at tokens, or with one token too many
DocText(d) ==
    CASE d.damage = "cut" -> SubSeq(ValidText(d), 1, d.at)
      [] d.damage = "extra" -> Append(ValidText(d), RBrace)
      [] OTHER -> ValidText(d)

Damaged(d) ==
    {d} \cup {[d EXCEPT !.damage = "extra"]}
        \cup {[d EXCEPT !.damage = "cut", !.at = n] : n \in 0..(Len(ValidText(d)) - 1)}

\* raw entries of a provider's list
TypeChat == TypeStr(<<"C", "h", "a", "t">>)
TypeImage == TypeStr(<<"i", "m", "a", "g", "e">>)
IdClaude == <<"C", "l", "a", "u", "d", "e", "-", "1">>
IdGpt == <<"g", "p", "t">>
NameSonnet == <<"m", "y", "S", "O", "N", "N", "E", "T">>
IdAssistant == <<"a", "n", "A", "s", "s", "i", "s", "t", "a", "n", "t">>
IdChat == <<"m", "-", "c", "h", "a", "t">>
Uid == <<"u", "1">>

Named(type, n, cl, cx) ==
    CASE n = 1 -> Raw(type, IdClaude, <<>>, <<>>, <<>>, cl, cx)
      [] n = 2 -> Raw(type, <<>>, <<>>, NameSonnet, <<>>, cl, cx)
      [] n = 3 -> Raw(type, IdGpt, <<>>, Claude, <<>>, cl, cx)
      [] n = 4 -> Raw(type, <<>>, IdChat, <<>>, <<>>, cl, cx)
      [] n = 5 -> Raw(type, IdAssistant, <<>>, <<>>, <<>>, cl, cx)
      [] n = 6 -> Raw(type, <<>>, <<>>, <<>>, Uid, cl, cx)
      [] OTHER -> Raw(type, <<>>, <<>>, <<>>, <<>>, cl, cx)

Entries ==
    {Named(t, n, NoFinite, NoFinite) :
        t \in {NoType, TypeChat, TypeImage, TypeNum}, n \in 1..7}
    \cup {Named(t, 1, c[1], c[2]) :
            t \in {NoType, TypeChat},
            c \in {<<Finite(0), Finite(4000)>>, <<Finite(200000), NoFinite>>,
                   <<NoFinite, Finite(4000)>>, <<Finite(-1), NoFinite>>}}
    \cup {NullRaw}

Lists(n) == UNION {[1..k -> Entries] : k \in 0..n}

Body(kind, items, members) == [kind |-> kind, items |-> items, members |-> members]
Member(key, isArray, items) == [key |-> key, isArray |-> isArray, items |-> items]
NoBody == Body("falsy", <<>>, <<>>)

EntryA == Named(NoType, 1, NoFinite, NoFinite)
EntryB == Named(TypeChat, 3, Finite(200000), NoFinite)

ObjectBodies ==
    {Body("object", <<>>, <<Member(k, TRUE, <<EntryA>>)>>) :
        k \in {"models", "data", "result", "items", "list"}}
    \cup {Body("object", <<>>, m) :
            m \in {<<>>,
                   <<Member("models", TRUE, <<>>)>>,
                   <<Member("data", TRUE, <<EntryA>>), Member("models", TRUE, <<EntryB>>)>>,
                   <<Member("items", TRUE, <<EntryA>>), Member("result", TRUE, <<EntryB>>)>>,
                   <<Member("models", FALSE, <<>>), Member("items", TRUE, <<EntryB>>)>>,
                   <<Member("object", FALSE, <<>>), Member("list", TRUE, <<EntryA>>),
                     Member("more", TRUE, <<EntryB>>)>>}}

\* parsed bodies: a list, an object, a falsy value (null, 0, false, "")
\* or another primitive
Bodies ==
    {Body("array", l, <<>>) : l \in Lists(MaxModels)}
    \cup ObjectBodies
    \cup {NoBody, Body("primitive", <<>>, <<>>)}

\* the bodies a candidate endpoint answers with
FetchBodies ==
    {NoBody,
     Body("array", <<EntryA, EntryB, EntryA>>, <<>>),
     Body("object", <<>>, <<Member("data", TRUE, <<EntryB>>)>>),
     Body("object", <<>>, <<>>)}

Statuses == {200, 401, 403, 500}
NetworkError == [neterr |-> TRUE, status |-> 0, body |-> NoBody]
Response(status) == [neterr |-> FALSE, status |-> status, body |-> NoBody]
FetchOutcomes == {NetworkError} \cup {Response(st) : st \in Statuses}
Ok(r) == ~r.neterr /\ r.status >= 200 /\ r.status <= 299

(***************************************************************************)
(* Initial states                                                          *)
(***************************************************************************)
Idle ==
    /\ pc = "init"
    /\ idx = 0
    /\ requests = <<>>
    /\ resp = NoResp
    /\ ended = <<>>
    /\ resJson = NoBody
    /\ rawModels = <<>>
    /\ chatModels = <<>>
    /\ result = NoResult
    /\ factoryCalls = <<>>

InitAgentRouter ==
    /\ provider = AgentRouterName
    /\ \E ks \in SUBSET KeySources, bc \in BaseConfigs :
          /\ Cardinality(ks) <= MaxSources
          /\ apiKeys = ApiKeysOf(ks)
          /\ providerSettings = SettingsFor(ks, bc)
          /\ serverEnv = ServerEnvOf(ks, bc)
          /\ processEnv = ProcessEnvOf(bc)
    /\ doc = Doc("none", NoFields, TLit("null"), 0)
    /\ Idle

InitBedrock ==
    /\ provider = BedrockName
    /\ \E v \in ValidDocs : doc \in Damaged(v)
    /\ \E where \in {"none", "apiKeys", "serverEnv"} :
          /\ apiKeys = [k \in {BedrockName} |-> Pick(where = "apiKeys", DocText(doc))]
          /\ serverEnv =
                [k \in {BedrockTokenKey} |-> Pick(where = "serverEnv", DocText(doc))]
    /\ providerSettings = EmptyMap
    /\ processEnv = EmptyMap
    /\ Idle

\* a body has been fetched and parsed
InitFetched ==
    /\ provider = AgentRouterName
    /\ apiKeys = ApiKeysOf({"keys.own"})
    /\ providerSettings = SettingsFor({"keys.own"}, <<"none", <<>> >>)
    /\ serverEnv = ServerEnvOf({"keys.own"}, <<"none", <<>> >>)
    /\ processEnv = ProcessEnvOf(<<"none", <<>> >>)
    /\ doc = Doc("none", NoFields, TLit("null"), 0)
    /\ pc = "fetched"
    /\ idx = 1
    /\ requests = <<>>
    /\ resp = Response(200)
    /\ ended = <<>>
    /\ resJson \in Bodies
    /\ rawModels = <<>>
    /\ chatModels = <<>>
    /\ result = NoResult
    /\ factoryCalls = <<>>

Init == InitAgentRouter \/ InitBedrock

(***************************************************************************)
(* AmazonBedrockProvider: the calls                                        *)
(***************************************************************************)
Locals == <<idx, requests, resp, ended, resJson, rawModels, chatModels>>
Inputs == <<provider, apiKeys, providerSettings, serverEnv, processEnv, doc>>

\* _parseAndValidateConfig applied to the blob
ParseAndValidateConfig ==
    /\ provider = BedrockName
    /\ pc = "init"
    /\ result' = _parseAndValidateConfig(DocText(doc))
    /\ pc' = "parsed"
    /\ UNCHANGED <<Inputs, Locals, factoryCalls>>

BedrockGetModelInstance ==
    /\ provider = BedrockName
    /\ pc = "init"
    /\ LET r == BedrockInstance(apiKeys, SettingsOf(BedrockName), serverEnv) IN
          /\ result' = r.result
          /\ factoryCalls' = r.calls
    /\ pc' = "instance"
    /\ UNCHANGED <<Inputs, Locals>>

(***************************************************************************)
(* TogetherProvider: the calls                                             *)
(***************************************************************************)
AgentRouterGetModelInstance ==
    /\ provider = AgentRouterName
    /\ pc = "init"
    /\ LET r == AgentRouterInstance(ModelId, serverEnv, apiKeys, providerSettings,
                                    processEnv) IN
          /\ result' = r.result
          /\ factoryCalls' = r.calls
    /\ pc' = "instance"
    /\ UNCHANGED <<Inputs, Locals>>

Credentials == DynamicCredentials(apiKeys, SettingsOf(AgentRouterName), serverEnv)

\* a request as fetch() is given it
Request(i, header) ==
    [url |-> Endpoints(Credentials.baseUrl)[i], header |-> header,
     key |-> Credentials.key]

\* lines 112-192, reached with the body in hand
Finish(body) ==
    LET r == ModelsFromBody(body) IN
    /\ resJson' = body
    /\ rawModels' = r.raw
    /\ chatModels' = r.chat
    /\ result' = Returned(r.models)
    /\ pc' = "done"

\* `continue`: the candidate has failed; on to the next one, or out of the loop
Continue(how) ==
    /\ ended' = Append(ended, how)
    /\ IF idx < Len(Endpoints(Credentials.baseUrl))
       THEN /\ idx' = idx + 1
            /\ requests' = Append(requests, Request(idx + 1, "Authorization"))
            /\ pc' = "awaitBearer"
            /\ UNCHANGED <<resJson, rawModels, chatModels, result>>
       ELSE /\ Finish(resJson)
            /\ UNCHANGED <<idx, requests>>

\* mutant: 403 forgotten
NeedsAltHeaderOnly401(status) == status = 401

\* line 77: the statuses that get the alternate header tried
NeedsAltHeader(status) == status = 401 \/ status = 403

\* getDynamicModels up to its first fetch (lines 41-74)
GetDynamicModels ==
    /\ provider = AgentRouterName
    /\ pc = "init"
    /\ IF Credentials.baseUrl = <<>> \/ Credentials.key = <<>>
       THEN /\ result' = Returned(staticModels)
            /\ pc' = "done"
            /\ UNCHANGED <<idx, requests>>
       ELSE /\ idx' = 1
            /\ requests' = <<Request(1, "Authorization")>>
            /\ pc' = "awaitBearer"
            /\ UNCHANGED result
    /\ UNCHANGED <<Inputs, resp, ended, resJson, rawModels, chatModels, factoryCalls>>

\* the Bearer fetch settles (lines 68-97)
BearerResponse ==
    /\ pc = "awaitBearer"
    /\ \E o \in FetchOutcomes :
          /\ resp' = o
          /\ IF o.neterr THEN Continue("network error")
             ELSE IF NeedsAltHeader(o.status)
             THEN /\ requests' = Append(requests, Request(idx, "x-api-key"))
                  /\ pc' = "awaitAlt"
                  /\ UNCHANGED <<idx, ended, resJson, rawModels, chatModels, result>>
             ELSE IF ~Ok(o) THEN Continue("non-OK status")
             ELSE /\ pc' = "awaitJson"
                  /\ UNCHANGED <<idx, requests, ended, resJson, rawModels,
                                 chatModels, result>>
    /\ UNCHANGED <<Inputs, factoryCalls>>

\* the x-api-key fetch settles (lines 79-91)
AltResponse ==
    /\ pc = "awaitAlt"
    /\ \E o \in FetchOutcomes :
          /\ resp' = o
          /\ IF o.neterr THEN Continue("network error")
             ELSE IF ~Ok(o) THEN Continue("non-OK status")
             ELSE /\ pc' = "awaitJson"
                  /\ UNCHANGED <<idx, requests, ended, resJson, rawModels,
                                 chatModels, result>>
    /\ UNCHANGED <<Inputs, factoryCalls>>

\* resp.json() / alt.json() settles (lines 83-88, 99-105), and on success the
\* rest of the function runs
JsonResult ==
    /\ pc = "awaitJson"
    /\ \/ /\ Continue("parse failure")
          /\ UNCHANGED resp
       \/ \E b \in FetchBodies :
             /\ resp' = [resp EXCEPT !.body = b]
             /\ ended' = Append(ended, "ok")
             /\ Finish(b)
             /\ UNCHANGED <<idx, requests>>
    /\ UNCHANGED <<Inputs, factoryCalls>>

\* lines 112-192 on a fetched body
MapFetched ==
    /\ pc = "fetched"
    /\ Finish(resJson)
    /\ UNCHANGED <<Inputs, idx, requests, resp, ended, factoryCalls>>

Next ==
    \/ ParseAndValidateConfig
    \/ BedrockGetModelInstance
    \/ AgentRouterGetModelInstance
    \/ GetDynamicModels
    \/ BearerResponse
    \/ AltResponse
    \/ JsonResult

Spec == Init /\ [][Next]_vars

\* the tail of getDynamicModels over the bodies a provider can answer with
SpecModels == InitFetched /\ [][MapFetched]_vars

(***************************************************************************)
(* Properties                                                              *)
(***************************************************************************)
Range(s) == {s[i] : i \in 1..Len(s)}
Last(s) == s[Len(s)]
Failures == {"network error", "non-OK status", "parse failure"}
BearerRequests == SelectSeq(requests, LAMBDA r : r.header = "Authorization")

Suffixes ==
    << <<"/", "v", "1", "b", "e", "t", "a", "/", "m", "o", "d", "e", "l", "s">>,
       <<"/", "v", "1", "/", "m", "o", "d", "e", "l", "s">>,
       <<"/", "m", "o", "d", "e", "l", "s">> >>

\* b is u with one trailing slash stripped
IsStripped(b, u) ==
    \/ b \o <<"/">> = u
    \/ b = u /\ (u = <<>> \/ Last(u) # "/")

C1_State ==
    (provider = AgentRouterName /\ requests # <<>>) =>
        /\ idx \in 1..3
        /\ Len(BearerRequests) = idx
        /\ \E n \in 0..Len(Credentials.baseUrl) :
              LET b == SubSeq(Credentials.baseUrl, 1, n) IN
              /\ IsStripped(b, Credentials.baseUrl)
              /\ \A i \in 1..idx : BearerRequests[i].url = b \o Suffixes[i]
        /\ Len(ended) >= idx - 1
        /\ \A k \in 1..(idx - 1) : ended[k] \in Failures
        /\ "ok" \in Range(ended) =>
              /\ pc = "done"
              /\ Len(ended) = idx
              /\ Last(ended) = "ok"
              /\ resJson = resp.body
              /\ rawModels = ModelsFromBody(resp.body).raw
              /\ result = Returned(ModelsFromBody(resp.body).models)

\* C1: the candidates are requested in the order <base>/v1beta/models,
\* <base>/v1/models, <base>/models (base with one trailing slash stripped); a
\* later candidate is requested only after every earlier one has ended in a
\* network error, a non-OK status or a parse failure; once a candidate has
\* answered OK with a parseable body no further request is issued and that
\* body is the one normalized.
C1_EndpointOrder ==
    /\ []C1_State
    /\ [][("ok" \in Range(ended)) => (requests' = requests)]_vars

C1_Witness ==
    /\ pc = "done"
    /\ ended = <<"parse failure", "non-OK status", "ok">>
    /\ Last(Credentials.baseUrl) = "/"
    /\ resJson.kind = "array"

RequestsTo(url) == {i \in 1..Len(requests) : requests[i].url = url}

C2_State ==
    /\ Len(requests) <= 6
    /\ \A i \in 1..Len(requests) :
          /\ Cardinality(RequestsTo(requests[i].url)) <= 2
          /\ requests[i].header = "x-api-key" =>
                /\ i > 1
                /\ requests[i - 1].header = "Authorization"
                /\ requests[i - 1].url = requests[i].url
                /\ \A j \in RequestsTo(requests[i].url) :
                      requests[j].header = "x-api-key" => j = i

C2_Step ==
    LET authFailed == /\ pc = "awaitBearer"
                      /\ ~resp'.neterr
                      /\ resp'.status \in {401, 403}
        altIssued == /\ Len(requests') = Len(requests) + 1
                     /\ Last(requests').header = "x-api-key"
    IN /\ authFailed <=> altIssued
       /\ altIssued => /\ SubSeq(requests', 1, Len(requests)) = requests
                       /\ Last(requests').url = Last(requests).url
                       /\ Last(requests).header = "Authorization"

\* C2: an x-api-key GET is issued if and only if the Bearer GET to the same
\* URL has just returned 401 or 403; it follows that Bearer request, targets
\* the same URL and happens at most once per candidate, so a call issues at
\* most two requests per candidate and at most six in all.
C2_AltHeaderRetry == []C2_State /\ [][C2_Step]_vars

C2_Witness ==
    /\ Len(requests) = 6
    /\ pc = "done"

\* C3: when every candidate has failed (network error, non-OK status or
\* unparseable body, in any combination) the call raises nothing and returns
\* the static model list.
C3_AllFailStatic ==
    (/\ provider = AgentRouterName
     /\ pc = "done"
     /\ Len(ended) = 3
     /\ \A k \in 1..3 : ended[k] \in Failures)
    => result = Returned(staticModels)

C3_Witness ==
    /\ pc = "done"
    /\ ended = <<"network error", "non-OK status", "parse failure">>
    /\ Len(requests) = 5
    /\ result = Returned(staticModels)

Required == {"region", "accessKeyId", "secretAccessKey"}

\* the document, as written, lacks a non-empty required field
LacksRequired(d) ==
    \/ d.kind # "object"
    \/ \E k \in Required : d.fields[k] \in {Absent, ""}

\* a blob cut short or with a token too many is not JSON
NotJson(d) == d.damage # "none"

\* C5: blob parsing fails with one of two errors and no other: 'invalid
\* format' for every input that is not valid JSON, 'missing required fields'
\* for every valid JSON value (object, array, string, number, boolean, null)
\* lacking a non-empty region, accessKeyId or secretAccessKey.
C5_TwoErrors ==
    (provider = BedrockName /\ pc = "parsed") =>
        /\ NotJson(doc) => result = Threw("InvalidFormat")
        /\ (~NotJson(doc) /\ LacksRequired(doc)) => result = Threw("MissingFields")
        /\ result.kind = "threw" => result.error \in {"InvalidFormat", "MissingFields"}

\* C6: a valid JSON blob with region, accessKeyId and secretAccessKey all
\* non-empty parses to those three values unchanged, with a sessionToken
\* field exactly when the input carried a non-empty one, of the same value.
C6_ParseSucceeds ==
    (/\ provider = BedrockName
     /\ pc = "parsed"
     /\ ~NotJson(doc)
     /\ ~LacksRequired(doc))
    => /\ result.kind = "returned"
       /\ \A k \in Required : result.value[k] = JStr(doc.fields[k])
       /\ DOMAIN result.value \subseteq Required \cup {"sessionToken"}
       /\ "sessionToken" \in DOMAIN result.value
             <=> doc.fields["sessionToken"] \notin {Absent, ""}
       /\ "sessionToken" \in DOMAIN result.value
             => result.value["sessionToken"] = JStr(doc.fields["sessionToken"])

C6_Witness ==
    /\ provider = BedrockName
    /\ pc = "parsed"
    /\ ~NotJson(doc)
    /\ doc.kind = "object"
    /\ doc.fields["region"] = "a"
    /\ doc.fields["accessKeyId"] = "b"
    /\ doc.fields["secretAccessKey"] = "a"
    /\ doc.fields["sessionToken"] = ""
    /\ result.kind = "returned"
    /\ DOMAIN result.value = Required

KeyCandidates ==
    <<Lookup(apiKeys, AgentRouterName),
      Lookup(apiKeys, "ANTHROPIC_API_KEY"),
      Lookup(apiKeys, "AGENTROUTER_API_KEY"),
      SettingsOf(AgentRouterName).apiKey,
      SettingsOf("Anthropic").apiKey,
      Lookup(serverEnv, "ANTHROPIC_API_KEY"),
      Lookup(serverEnv, "AGENTROUTER_API_KEY")>>

NoKeyAnywhere == \A i \in 1..Len(KeyCandidates) : KeyCandidates[i] = <<>>

BlobUnresolved ==
    /\ Lookup(apiKeys, BedrockName) = <<>>
    /\ Lookup(serverEnv, BedrockTokenKey) = <<>>

\* C7: getModelInstance hands the client factory a fully resolved credential
\* or throws before calling it: AgentRouter throws when no source yields an
\* apiKey (or a baseUrl); Bedrock throws when no blob is resolved or the blob
\* fails validation.
C7_NoPartialHandle ==
    pc = "instance" =>
        /\ result.kind \in {"returned", "threw"}
        /\ result.kind = "threw" => factoryCalls = <<>>
        /\ result.kind = "returned" => factoryCalls = <<result.value>>
        /\ provider = AgentRouterName =>
              /\ NoKeyAnywhere => result.kind = "threw"
              /\ \A i \in 1..Len(factoryCalls) :
                    /\ factoryCalls[i].apiKey # <<>>
                    /\ factoryCalls[i].baseUrl # <<>>
        /\ provider = BedrockName =>
              /\ (BlobUnresolved \/ NotJson(doc) \/ LacksRequired(doc))
                    => result.kind = "threw"
              /\ \A i \in 1..Len(factoryCalls) :
                    \A k \in Required :
                        /\ k \in DOMAIN factoryCalls[i]
                        /\ Truthy(factoryCalls[i][k])

C7_Witness ==
    /\ pc = "instance"
    /\ provider = AgentRouterName
    /\ NoKeyAnywhere
    /\ SettingsOf(AgentRouterName).baseUrl # <<>>
    /\ result = Threw("MissingConfiguration")
    /\ factoryCalls = <<>>

RECURSIVE FirstNonEmpty(_, _)
FirstNonEmpty(s, i) ==
    IF i > Len(s) THEN <<>>
    ELSE IF s[i] # <<>> THEN s[i]
    ELSE FirstNonEmpty(s, i + 1)

\* the key the stated precedence yields
ExpectedKey == FirstNonEmpty(KeyCandidates, 1)

\* C8: in getModelInstance and in getDynamicModels alike the AgentRouter key
\* is the first non-empty of: apiKeys[own name], apiKeys.ANTHROPIC_API_KEY,
\* apiKeys.AGENTROUTER_API_KEY, own settings apiKey, 'Anthropic' settings
\* apiKey, serverEnv.ANTHROPIC_API_KEY, serverEnv.AGENTROUTER_API_KEY.
C8_KeyPrecedence ==
    provider = AgentRouterName =>
        /\ pc = "instance" =>
              (IF result.kind = "returned" THEN result.value.apiKey ELSE <<>>)
                  = ExpectedKey
        /\ pc \in {"awaitBearer", "awaitAlt", "awaitJson", "done"} =>
              (IF requests # <<>> THEN requests[1].key ELSE <<>>) = ExpectedKey

Mapped == [i \in 1..Len(chatModels) |-> MapModel(chatModels[i])]

\* the records of s whose name no earlier record of s bears
RECURSIVE KeepFirstFrom(_, _)
KeepFirstFrom(s, i) ==
    IF i > Len(s) THEN <<>>
    ELSE (IF \E j \in 1..(i - 1) : s[j].name = s[i].name THEN <<>> ELSE <<s[i]>>)
         \o KeepFirstFrom(s, i + 1)

RECURSIVE NamedFrom(_, _)
NamedFrom(s, i) ==
    IF i > Len(s) THEN <<>>
    ELSE (IF s[i].name = <<>> THEN <<>> ELSE <<s[i]>>) \o NamedFrom(s, i + 1)

NamesUnique(s) ==
    \A i, j \in 1..Len(s) : s[i].name = s[j].name => i = j

\* the call returned mapped entries, not the static fallback
DynamicSucceeded == result.kind = "returned" /\ result.value # staticModels

\* C4 as stated: no two returned records share a name, and a dynamic result
\* is the mapped chat entries less every later entry of a name already seen.
C4_FirstSeenOfAll ==
    pc = "done" =>
        /\ NamesUnique(result.value)
        /\ DynamicSucceeded => result.value = KeepFirstFrom(Mapped, 1)

\* C4, amended: no two returned records share a name, and a dynamic result
\* is the mapped chat entries that have a name, less every later entry of a
\* name already seen, in encounter order.
C4_FirstSeenOfNamed ==
    pc = "done" =>
        /\ NamesUnique(result.value)
        /\ DynamicSucceeded => result.value = KeepFirstFrom(NamedFrom(Mapped, 1), 1)

C4_Witness ==
    /\ pc = "done"
    /\ Len(chatModels) = 2
    /\ chatModels[1] # chatModels[2]
    /\ Mapped[1].name = Mapped[2].name
    /\ Mapped[1].name # <<>>
    /\ result.value = <<Mapped[1]>>

\* the id the filter looks at: the id, or the name when there is no id
FilterId(m) == ToLowerCase(IF m.id # <<>> THEN m.id ELSE m.name)

InfersChat(m) ==
    \E lit \in {Chat, Claude, Sonnet, Assistant} : Includes(FilterId(m), lit)

KeptByTypeField(m) ==
    /\ m.present
    /\ \/ m.type.k # "absent" /\ m.type.k = "string" /\ ToLowerCase(m.type.v) = Chat
       \/ m.type.k = "absent" /\ InfersChat(m)

KeptByStringType(m) ==
    /\ m.present
    /\ \/ m.type.k = "string" /\ ToLowerCase(m.type.v) = Chat
       \/ m.type.k # "string" /\ InfersChat(m)

\* C9 as stated: an entry is kept iff it carries a type field equal to
\* "chat" case-insensitively, or carries no type field and its id/name,
\* lower-cased, contains "chat", "claude", "sonnet" or "assistant".
C9_FilterByTypeField ==
    pc = "done" => chatModels = SelectSeq(rawModels, KeptByTypeField)

\* C9, amended: an entry is kept iff its type is a string equal to "chat"
\* case-insensitively, or its type is not a string (absent or otherwise) and
\* its id (its name when it has no id), lower-cased, contains one of the
\* four literals.
C9_FilterByStringType ==
    pc = "done" => chatModels = SelectSeq(rawModels, KeptByStringType)

C9_Witness ==
    /\ pc = "done"
    /\ Len(rawModels) = 2
    /\ rawModels[1].type = TypeChat /\ rawModels[1].id = IdGpt
    /\ rawModels[2].type = TypeImage /\ rawModels[2].id = IdClaude
    /\ chatModels = <<rawModels[1]>>

\* C10: every returned record has maxCompletionTokens at most 8192 and at
\* most its maxTokenAllowed.
C10_CompletionWithinAllowed ==
    (pc = "done" /\ result.kind = "returned") =>
        \A i \in 1..Len(result.value) :
            /\ result.value[i].maxCompletionTokens <= 8192
            /\ result.value[i].maxCompletionTokens <= result.value[i].maxTokenAllowed

====
